---- MODULE Spec2Model ----
(***************************************************************************)
(* Model of top_players.py: the record parser (parse_player_file), the     *)
(* collector (find_all_players), ranking and class summary (print_table,   *)
(* print_class_summary) and the entry point (main).                        *)
(*                                                                         *)
(* Text is a sequence of one-character strings, so that strip, startswith, *)
(* split and int are computed as Python computes them.                     *)
(***************************************************************************)
EXTENDS Integers, Sequences, FiniteSets, TLC

VARIABLES
    pc,         \* control position of the running function
    readable,   \* parser: whether filepath.read_text() succeeds
    content,    \* parser: the lines of the file (content.splitlines())
    lineNo,     \* parser: number of lines the for loop has consumed
    data,       \* parser: the data dict
    result,     \* parser: return value, <<>> for None, <<player>> for a Player
    lastLine,   \* parser: the line the last loop iteration consumed
    players,    \* the list of Player objects held by the caller
    table,      \* last print_table call: sort_key, limit, printed rows
    summary,    \* last print_class_summary call: sort_key, limit, printed lines
    scriptDir,  \* main: what is at <script dir>/lib/plrfiles
    cwdDir,     \* main: what is at ./lib/plrfiles
    root,       \* main: plrfiles_dir, "script" or "cwd"
    out,        \* main: the output events so far
    status,     \* main: exit status of the process, -1 while running
    calls,      \* main: number of find_all_players invocations
    seen,       \* collector: what the traversal met so far, by category
    collected   \* main: the list as find_all_players returned it

vars == <<pc, readable, content, lineNo, data, result, lastLine, players, table,
          summary, scriptDir, cwdDir, root, out, status, calls, seen, collected>>

parseVars == <<readable, content, lineNo, data, result, lastLine>>
reportVars == <<table, summary>>
mainVars == <<scriptDir, cwdDir, root, out, status, calls, seen, collected>>

-----------------------------------------------------------------------------
(* Bounds *)

MaxLines == 3       \* lines per file text
MaxPlayers == 5     \* length of the short player lists
LongLen == 12       \* length of the longest patterned player list
MaxLimit == 3       \* explicit limit arguments range over 0..MaxLimit
MaxChildren == 2    \* children of the root directory
MaxEntries == 3     \* entries of the subdirectories, all together

-----------------------------------------------------------------------------
(* Python str operations on sequences of characters *)

Whitespace == {" ", "\t"}

Digits == {"0", "1", "2", "3", "4", "5", "6", "7", "8", "9"}

DigitVal(c) ==
    CASE c = "0" -> 0 [] c = "1" -> 1 [] c = "2" -> 2 [] c = "3" -> 3
      [] c = "4" -> 4 [] c = "5" -> 5 [] c = "6" -> 6 [] c = "7" -> 7
      [] c = "8" -> 8 [] c = "9" -> 9

RECURSIVE LStrip(_)
LStrip(s) ==
    IF s # <<>> /\ Head(s) \in Whitespace THEN LStrip(Tail(s)) ELSE s

RECURSIVE RStrip(_)
RStrip(s) ==
    IF s # <<>> /\ s[Len(s)] \in Whitespace
    THEN RStrip(SubSeq(s, 1, Len(s) - 1))
    ELSE s

\* str.strip()
Strip(s) == RStrip(LStrip(s))

\* str.startswith(p)
StartsWith(s, p) == Len(s) >= Len(p) /\ SubSeq(s, 1, Len(p)) = p

\* index of the first ":" of s, 0 when there is none
FirstColon(s) ==
    IF \E i \in 1..Len(s) : s[i] = ":"
    THEN CHOOSE i \in 1..Len(s) : s[i] = ":" /\ \A j \in 1..(i - 1) : s[j] # ":"
    ELSE 0

\* s.split(":", 1): one part when s has no colon, else the text before and
\* after the first colon
SplitColon(s) ==
    IF FirstColon(s) = 0
    THEN <<s>>
    ELSE <<SubSeq(s, 1, FirstColon(s) - 1), SubSeq(s, FirstColon(s) + 1, Len(s))>>

\* the digit groups of an int literal: digits, single underscores between them
IsDigitRun(s) ==
    /\ s # <<>>
    /\ \A i \in 1..Len(s) : s[i] \in Digits \cup {"_"}
    /\ s[1] # "_" /\ s[Len(s)] # "_"
    /\ \A i \in 1..(Len(s) - 1) : ~(s[i] = "_" /\ s[i + 1] = "_")

RECURSIVE DigitRunVal(_, _)
DigitRunVal(s, acc) ==
    IF s = <<>> THEN acc
    ELSE IF Head(s) = "_" THEN DigitRunVal(Tail(s), acc)
    ELSE DigitRunVal(Tail(s), 10 * acc + DigitVal(Head(s)))

RECURSIVE LeadingDigitsVal(_, _)
LeadingDigitsVal(s, acc) ==
    IF s = <<>> \/ Head(s) \notin Digits THEN acc
    ELSE LeadingDigitsVal(Tail(s), 10 * acc + DigitVal(Head(s)))

\* a C-style conversion: the leading digits count, trailing garbage is dropped
ToIntLeadingDigits(s) ==
    LET t == Strip(s)
    IN  IF t = <<>> \/ Head(t) \notin Digits THEN <<>>
        ELSE <<LeadingDigitsVal(t, 0)>>

\* int(s): <<n>> for the value, <<>> when int raises ValueError.  int strips
\* surrounding whitespace and takes an optional sign.
ToInt(s) ==
    LET t == Strip(s)
        signed == t # <<>> /\ Head(t) \in {"+", "-"}
        body == IF signed THEN Tail(t) ELSE t
    IN  IF ~IsDigitRun(body) THEN <<>>
        ELSE IF signed /\ Head(t) = "-" THEN <<0 - DigitRunVal(body, 0)>>
        ELSE <<DigitRunVal(body, 0)>>

-----------------------------------------------------------------------------
(* Class catalog and the Player dataclass *)

CLASS_NAMES(c) ==
    CASE c = 0 -> "Magic User" [] c = 1 -> "Cleric" [] c = 2 -> "Thief"
      [] c = 3 -> "Warrior" [] OTHER -> "Unknown"

CLASS_ICONS(c) ==
    CASE c = 0 -> "crystal ball" [] c = 1 -> "cross" [] c = 2 -> "dagger"
      [] c = 3 -> "swords" [] OTHER -> "question mark"

class_name(p) == CLASS_NAMES(p.class_id)

class_icon(p) == CLASS_ICONS(p.class_id)

\* the data dict as parse_player_file initialises it
DefaultData == [name |-> <<>>, class_id |-> 0, level |-> 0, xp |-> 0, gold |-> 0]

-----------------------------------------------------------------------------
(* parse_player_file *)

NamePrefix == <<"N", "a", "m", "e", ":">>
ClasPrefix == <<"C", "l", "a", "s", ":">>
LevlPrefix == <<"L", "e", "v", "l", ":">>
\* the experience key matched like the other keys, by a colon-suffixed prefix
ExpPrefixColon == <<"E", "x", "p", ":">>

ExpPrefix == <<"E", "x", "p", " ">>
GoldPrefix == <<"G", "o", "l", "d", ":">>

\* data[field] = int(line.split(":", 1)[1].strip()) inside try/except: the
\* IndexError of a missing second part and the ValueError of int both leave
\* the dict as it was
SetInt(d, field, line) ==
    LET parts == SplitColon(line)
    IN  IF Len(parts) < 2 THEN d
        ELSE IF ToInt(Strip(parts[2])) = <<>> THEN d
        ELSE [d EXCEPT ![field] = ToInt(Strip(parts[2]))[1]]

\* which branch of the if/elif chain takes the stripped line
KeyOf(s) ==
    IF StartsWith(s, NamePrefix) THEN "name"
    ELSE IF StartsWith(s, ClasPrefix) THEN "class_id"
    ELSE IF StartsWith(s, LevlPrefix) THEN "level"
    ELSE IF StartsWith(s, ExpPrefix) THEN "xp"
    ELSE IF StartsWith(s, GoldPrefix) THEN "gold"
    ELSE "none"

\* one iteration of the for loop over the lines
ParseLine(d, rawLine) ==
    LET line == Strip(rawLine)
        key == KeyOf(line)
    IN  IF key = "name" THEN [d EXCEPT !.name = Strip(SplitColon(line)[2])]
        ELSE IF key = "none" THEN d
        ELSE SetInt(d, key, line)

RECURSIVE ParseLines(_, _)
ParseLines(d, lines) ==
    IF lines = <<>> THEN d ELSE ParseLines(ParseLine(d, Head(lines)), Tail(lines))

\* the Player built without the name check
PlayerOfUnchecked(d) == <<d>>

\* if not data["name"]: return None; return Player(**data)
PlayerOf(d) == IF d.name = <<>> THEN <<>> ELSE <<d>>

\* the whole function on a file that is readable or not
ParsePlayerFile(canRead, lines) ==
    IF ~canRead THEN <<>> ELSE PlayerOf(ParseLines(DefaultData, lines))

-----------------------------------------------------------------------------
(* File texts: the lines a .plr file is made of in this model *)

LnName == <<"N", "a", "m", "e", ":", " ", "A", "l">>    \* "Name: Al"

LnNameEmpty == <<"N", "a", "m", "e", ":", " ">>    \* "Name: "

LnClas == <<"C", "l", "a", "s", ":", " ", "9">>    \* "Clas: 9"

LnLevl == <<" ", "L", "e", "v", "l", ":", " ", "7", " ">>    \* " Levl: 7 "

LnLevlBad == <<"L", "e", "v", "l", ":", " ", "7", "a">>    \* "Levl: 7a"

LnLevlNeg == <<"L", "e", "v", "l", ":", " ", "-", "3">>    \* "Levl: -3"

LnExp == <<"E", "x", "p", " ", ":", " ", "5">>    \* "Exp : 5"

LnExpColon == <<"E", "x", "p", ":", " ", "5">>    \* "Exp: 5"

LnExpNoColon == <<"E", "x", "p", " ", "5">>    \* "Exp 5"

LnExpBad == <<"E", "x", "p", " ", ":", " ", "x">>    \* "Exp : x"

LnGold == <<"G", "o", "l", "d", ":", " ", "+", "1", "_", "2">>    \* "Gold: +1_2"

LnGoldEmpty == <<"G", "o", "l", "d", ":">>    \* "Gold:"

LnJunk == <<"J", "u", "n", "k">>    \* "Junk"

LineAlphabet ==
    {LnName, LnNameEmpty, LnClas, LnLevl,
     LnLevlBad, LnLevlNeg, LnExp, LnExpColon,
     LnExpNoColon, LnExpBad, LnGold, LnGoldEmpty,
     LnJunk}

\* every text of at most MaxLines lines
Texts == UNION {[1..n -> LineAlphabet] : n \in 0..MaxLines}

NoTable == [sort_key |-> "none", limit |-> 0, rows |-> <<>>]
NoSummary == [sort_key |-> "none", limit |-> 0, lines |-> <<>>]
NoSeen == [nondir |-> 0, subdir |-> 0, other |-> 0, unreadable |-> 0,
           nameless |-> 0, named |-> <<>>]

\* the variables a specification does not use stay at these values
IdleParse ==
    /\ readable = TRUE /\ content = <<>> /\ lineNo = 0 /\ data = DefaultData
    /\ result = <<>> /\ lastLine = <<>>

IdleReport == table = NoTable /\ summary = NoSummary

IdleMain ==
    /\ scriptDir = "dir" /\ cwdDir = "dir" /\ root = "none" /\ out = <<>>
    /\ status = -1 /\ calls = 0 /\ seen = NoSeen /\ collected = <<>>

-----------------------------------------------------------------------------
(* parse_player_file, statement by statement *)

InitParse ==
    /\ pc = "read"
    /\ readable \in BOOLEAN
    /\ content \in Texts
    /\ lineNo = 0 /\ data = DefaultData /\ result = <<>> /\ lastLine = <<>>
    /\ players = <<>>
    /\ IdleReport /\ IdleMain

\* try: content = filepath.read_text() except Exception: return None
ReadText ==
    /\ pc = "read"
    /\ IF readable
       THEN pc' = "loop" /\ result' = result
       ELSE pc' = "returned" /\ result' = ParsePlayerFile(FALSE, content)
    /\ UNCHANGED <<readable, content, lineNo, data, lastLine, players>>
    /\ UNCHANGED reportVars /\ UNCHANGED mainVars

\* for line in content.splitlines(): one iteration
ParseStep ==
    /\ pc = "loop"
    /\ lineNo < Len(content)
    /\ data' = ParseLine(data, content[lineNo + 1])
    /\ lastLine' = content[lineNo + 1]
    /\ lineNo' = lineNo + 1
    /\ UNCHANGED <<pc, readable, content, result, players>>
    /\ UNCHANGED reportVars /\ UNCHANGED mainVars

\* the loop is over: return None without a name, the Player otherwise
ParseReturn ==
    /\ pc = "loop"
    /\ lineNo = Len(content)
    /\ result' = PlayerOf(data)
    /\ pc' = "returned"
    /\ UNCHANGED <<readable, content, lineNo, data, lastLine, players>>
    /\ UNCHANGED reportVars /\ UNCHANGED mainVars

NextParse == ReadText \/ ParseStep \/ ParseReturn

SpecParse == InitParse /\ [][NextParse]_vars

-----------------------------------------------------------------------------
(* Properties of parse_player_file.  The predicates below describe a file   *)
(* text by its characters and do not use the parser's own key matching or   *)
(* integer conversion.                                                      *)

NumericFields == {"class_id", "level", "xp", "gold"}

KeyText(field) ==
    CASE field = "name" -> <<"N", "a", "m", "e", ":">>
      [] field = "class_id" -> <<"C", "l", "a", "s", ":">>
      [] field = "level" -> <<"L", "e", "v", "l", ":">>
      [] field = "xp" -> <<"E", "x", "p", " ">>
      [] field = "gold" -> <<"G", "o", "l", "d", ":">>

\* the lines of a text whose stripped form starts with the field's key
LinesIn(text, field) ==
    {i \in 1..Len(text) : StartsWith(Strip(text[i]), KeyText(field))}

LinesOf(field) == LinesIn(content, field)

\* s is an integer literal: optional blanks, optional sign, digits with
\* single underscores between them, optional blanks
IsIntText(s) ==
    \E a, b \in 1..Len(s) :
        /\ a <= b
        /\ \A i \in 1..Len(s) : (i < a \/ i > b) => s[i] \in {" ", "\t"}
        /\ LET d0 == IF s[a] \in {"+", "-"} THEN a + 1 ELSE a
           IN  /\ d0 <= b
               /\ s[d0] \in Digits /\ s[b] \in Digits
               /\ \A i \in d0..b :
                      \/ s[i] \in Digits
                      \/ s[i] = "_" /\ s[i - 1] \in Digits /\ s[i + 1] \in Digits

\* the number an integer literal denotes
IntTextValue(s) ==
    LET digits == SelectSeq(s, LAMBDA c : c \in Digits)
        n == DigitRunVal(digits, 0)
    IN  IF \E i \in 1..Len(s) : s[i] = "-" THEN 0 - n ELSE n

\* the text after the first colon of a line, <<>> when it has no colon
AfterColon(line) ==
    IF Len(SplitColon(Strip(line))) = 2 THEN SplitColon(Strip(line))[2] ELSE <<>>

\* line i carries an integer value after its first colon
CarriesInt(i) == IsIntText(AfterColon(content[i]))

\* the value of the last Name: line of a text, <<>> when it has none
NameValueIn(text) ==
    IF LinesIn(text, "name") = {} THEN <<>>
    ELSE LET last == CHOOSE i \in LinesIn(text, "name") :
                         \A j \in LinesIn(text, "name") : j <= i
         IN  Strip(AfterColon(text[last]))

LastNameValue == NameValueIn(content)

Parsed == pc = "returned" /\ readable

\* C1 as stated: a record is returned exactly when some Name: line carries a
\* non-empty value, and every record has a non-empty name.
C1_SomeNameLineGivesRecord ==
    Parsed =>
        /\ result # <<>> <=>
               \E i \in LinesOf("name") : Strip(AfterColon(content[i])) # <<>>
        /\ result # <<>> => result[1].name # <<>>

\* C1 amended: a record is returned exactly when the last Name: line of the
\* text carries a non-empty value (no Name: line, or an empty value on the
\* last one, gives None whatever the other lines are); the record's name is
\* that value, so every record has a non-empty name.
C1_LastNameLineGivesRecord ==
    Parsed =>
        /\ result # <<>> <=> LastNameValue # <<>>
        /\ result # <<>> => result[1].name = LastNameValue /\ result[1].name # <<>>

\* a text with two Name: lines has been parsed into a record
C1_Witness ==
    Parsed /\ result # <<>> /\ Cardinality(LinesOf("name")) >= 2

\* line i has a colon and the text after the first one is not an integer
CarriesNonInt(i) ==
    Len(SplitColon(Strip(content[i]))) = 2 /\ ~IsIntText(AfterColon(content[i]))

\* C2 as stated: when a name was found a record is produced, and every
\* numeric field whose key is absent, or present with a non-integer value,
\* holds its default (class id 0 is labelled Magic User).
C2_MalformedOrAbsentIsDefault ==
    (Parsed /\ LastNameValue # <<>>) =>
        /\ result # <<>>
        /\ \A f \in NumericFields :
               (LinesOf(f) = {} \/ \E i \in LinesOf(f) : CarriesNonInt(i)) =>
                   /\ result[1][f] = 0
                   /\ f = "class_id" => class_name(result[1]) = "Magic User"

\* C2 amended: when a name was found a record is produced, and every numeric
\* field whose key is absent, or none of whose lines carries an integer,
\* holds its default (class id 0 is labelled Magic User); a malformed line
\* leaves the field as an earlier line set it.
C2_NoIntegerLineIsDefault ==
    (Parsed /\ LastNameValue # <<>>) =>
        /\ result # <<>>
        /\ \A f \in NumericFields :
               (\A i \in LinesOf(f) : ~CarriesInt(i)) =>
                   /\ result[1][f] = 0
                   /\ f = "class_id" => class_name(result[1]) = "Magic User"

\* a named text with a malformed level line and no gold line gave a record
C2_Witness ==
    /\ Parsed /\ result # <<>>
    /\ \E i \in 1..Len(content) : content[i] = LnLevlBad
    /\ LinesOf("gold") = {}
    /\ result[1].level = 0 /\ result[1].gold = 0

\* C7: every record the parser produces has non-negative level, experience
\* and currency.
C7_NumericFieldsNonNegative ==
    (Parsed /\ result # <<>>) =>
        result[1].level >= 0 /\ result[1].xp >= 0 /\ result[1].gold >= 0

\* C10: a line sets the experience field exactly when its stripped form
\* starts with "Exp" and a space and the text after its first colon is an
\* integer; any other line (one starting with "Exp:", an "Exp " line with no
\* colon or a non-integer value) leaves the experience as it was, and the
\* loop goes on.
C10_ExpLineRule ==
    [][ParseStep =>
        LET line == content[lineNo + 1]
            isExp == /\ StartsWith(Strip(line), <<"E", "x", "p", " ">>)
                     /\ IsIntText(AfterColon(line))
        IN  /\ pc' = "loop"
            /\ IF isExp
               THEN data'.xp = IntTextValue(AfterColon(line))
               ELSE data'.xp = data.xp]_vars

\* an "Exp : 5" line has set the experience after a line "Exp: 5" did not
C10_Witness ==
    /\ pc = "loop" /\ lineNo >= 2
    /\ content[lineNo - 1] = LnExpColon /\ lastLine = LnExp
    /\ data.xp = 5

-----------------------------------------------------------------------------
(* Ranking: sorted(players, key=..., reverse=True)[:limit]                  *)
(* A player is identified by its position in the input list.                *)

TableLimit == 100
SummaryLimit == 10

Min(a, b) == IF a <= b THEN a ELSE b
Max(a, b) == IF a >= b THEN a ELSE b

\* an unstable descending order: a later equal element overtakes
StaysAheadStrict(ps, key, a, b) == ps[a][key] > ps[b][key]

\* sorted(..., reverse=True) is stable: the element a, earlier in the input,
\* stays ahead of b unless b's key is greater
StaysAhead(ps, key, a, b) == ps[a][key] >= ps[b][key]

\* put position i into the ordered sequence done
RECURSIVE InsertRanked(_, _, _, _)
InsertRanked(ps, key, done, i) ==
    IF done = <<>> THEN <<i>>
    ELSE IF StaysAhead(ps, key, Head(done), i)
         THEN <<Head(done)>> \o InsertRanked(ps, key, Tail(done), i)
         ELSE <<i>> \o done

RECURSIVE RankFrom(_, _, _, _)
RankFrom(ps, key, done, i) ==
    IF i > Len(ps) THEN done
    ELSE RankFrom(ps, key, InsertRanked(ps, key, done, i), i + 1)

\* sorted(players, key=lambda p: getattr(p, sort_key), reverse=True), as the
\* positions of the input in their sorted order
SortedDesc(ps, key) == RankFrom(ps, key, <<>>, 1)

\* seq[:limit]
Take(seq, limit) ==
    IF limit >= 0 THEN SubSeq(seq, 1, Min(limit, Len(seq)))
    ELSE SubSeq(seq, 1, Max(Len(seq) + limit, 0))

\* sorted_players of both print_table and print_class_summary
Ranked(ps, key, limit) == Take(SortedDesc(ps, key), limit)

\* the rows print_table prints: rank, name, value, class display and level
\* (who is the position of the player in the input list)
TableRows(ps, key, limit) ==
    LET top == Ranked(ps, key, limit)
    IN  [i \in 1..Len(top) |->
            [rank |-> i, who |-> top[i], name |-> ps[top[i]].name,
             value |-> ps[top[i]][key],
             class |-> <<class_icon(ps[top[i]]), class_name(ps[top[i]])>>,
             level |-> ps[top[i]].level]]

\* class_counts[c] = class_counts.get(c, 0) + 1 on a dict kept in insertion
\* order, as a sequence of <<class_id, count>>
Bump(counts, c) ==
    IF \E j \in 1..Len(counts) : counts[j][1] = c
    THEN [j \in 1..Len(counts) |->
             IF counts[j][1] = c THEN <<c, counts[j][2] + 1>> ELSE counts[j]]
    ELSE Append(counts, <<c, 1>>)

RECURSIVE ClassCounts(_, _, _)
ClassCounts(ps, top, counts) ==
    IF top = <<>> THEN counts
    ELSE ClassCounts(ps, Tail(top), Bump(counts, ps[Head(top)].class_id))

\* sorted(class_counts.items(), key=lambda x: -x[1]): stable, greater count
\* first
RECURSIVE InsertCount(_, _)
InsertCount(done, item) ==
    IF done = <<>> THEN <<item>>
    ELSE IF Head(done)[2] >= item[2]
         THEN <<Head(done)>> \o InsertCount(Tail(done), item)
         ELSE <<item>> \o done

RECURSIVE SortCounts(_, _)
SortCounts(done, items) ==
    IF items = <<>> THEN done
    ELSE SortCounts(InsertCount(done, Head(items)), Tail(items))

\* the summary taken over every player, the limit forgotten
SummaryLinesNoLimit(ps, key, limit) ==
    LET items == SortCounts(<<>>, ClassCounts(ps, SortedDesc(ps, key), <<>>))
    IN  [i \in 1..Len(items) |->
            [class_id |-> items[i][1], icon |-> CLASS_ICONS(items[i][1]),
             name |-> CLASS_NAMES(items[i][1]), count |-> items[i][2]]]

\* the lines print_class_summary prints: icon, name and count per class
SummaryLines(ps, key, limit) ==
    LET items == SortCounts(<<>>, ClassCounts(ps, Ranked(ps, key, limit), <<>>))
    IN  [i \in 1..Len(items) |->
            [class_id |-> items[i][1], icon |-> CLASS_ICONS(items[i][1]),
             name |-> CLASS_NAMES(items[i][1]), count |-> items[i][2]]]

-----------------------------------------------------------------------------
(* print_table and print_class_summary called on a list of players *)

Al == [name |-> <<"A", "l">>, class_id |-> 0, level |-> 7, xp |-> 5, gold |-> 100]
Bo == [name |-> <<"B", "o">>, class_id |-> 1, level |-> 3, xp |-> 5, gold |-> 500]
Cy == [name |-> <<"C", "y">>, class_id |-> 0, level |-> 1, xp |-> 7, gold |-> 10]
Di == [name |-> <<"D", "i">>, class_id |-> 9, level |-> 0, xp |-> 5, gold |-> 0]

Pool == <<Al, Bo, Cy, Di>>

ShortLists == UNION {[1..n -> {Al, Bo, Cy, Di}] : n \in 0..MaxPlayers}

\* lists longer than the summary's limit: any two players, then the pool
\* taken with a stride
LongLists ==
    {[i \in 1..n |-> IF i <= 2 THEN h[i] ELSE Pool[((i * k) % 4) + 1]] :
        h \in [1..2 -> {Al, Bo, Cy, Di}],
        n \in (SummaryLimit + 1)..LongLen, k \in 1..3}

SortKeys == {"xp", "gold"}

InitReport ==
    /\ pc = "ready"
    /\ players \in ShortLists \cup LongLists
    /\ table = NoTable /\ summary = NoSummary
    /\ IdleParse /\ IdleMain

\* print_table(title, players, sort_key, limit)
PrintTable ==
    /\ pc = "ready"
    /\ \E key \in SortKeys, limit \in (0..MaxLimit) \cup {TableLimit} :
           table' = [sort_key |-> key, limit |-> limit,
                     rows |-> TableRows(players, key, limit)]
    /\ pc' = "tabled"
    /\ UNCHANGED <<players, summary>>
    /\ UNCHANGED parseVars /\ UNCHANGED mainVars

\* print_class_summary(players, sort_key) after the table of the same key
PrintClassSummary ==
    /\ pc = "tabled"
    /\ summary' = [sort_key |-> table.sort_key, limit |-> SummaryLimit,
                   lines |-> SummaryLines(players, table.sort_key, SummaryLimit)]
    /\ pc' = "summarised"
    /\ UNCHANGED <<players, table>>
    /\ UNCHANGED parseVars /\ UNCHANGED mainVars

NextReport == PrintTable \/ PrintClassSummary

SpecReport == InitReport /\ [][NextReport]_vars

-----------------------------------------------------------------------------
(* Properties of print_table and print_class_summary *)

Tabled == pc \in {"tabled", "summarised"}

\* C3: the rows print_table prints are min(limit, n) distinct players of the
\* input, in non-increasing order of the field, none of them smaller than an
\* omitted player, and players of equal value keep their input order.
C3_TableIsStableTopN ==
    Tabled =>
        LET rows == table.rows
            key == table.sort_key
            shown == {rows[i].who : i \in 1..Len(rows)}
        IN  /\ Len(rows) = Min(table.limit, Len(players))
            /\ shown \subseteq 1..Len(players)
            /\ Cardinality(shown) = Len(rows)
            /\ \A i \in 1..Len(rows) :
                   /\ rows[i].rank = i
                   /\ rows[i].value = players[rows[i].who][key]
                   /\ rows[i].name = players[rows[i].who].name
            /\ \A i, k \in 1..Len(rows) :
                   i < k =>
                       /\ rows[i].value >= rows[k].value
                       /\ rows[i].value = rows[k].value => rows[i].who < rows[k].who
            /\ \A j \in (1..Len(players)) \ shown :
                   \A i \in 1..Len(rows) : players[j][key] <= rows[i].value

\* gold values 100, 500, 500, 10, 0 with limit 3: the two 500s in input
\* order, then the 100
C3_Witness ==
    /\ Tabled
    /\ players = <<Al, Bo, Bo, Cy, Di>>
    /\ table.sort_key = "gold" /\ table.limit = 3
    /\ <<table.rows[1].who, table.rows[2].who, table.rows[3].who>> = <<2, 3, 1>>
    /\ <<table.rows[1].value, table.rows[2].value, table.rows[3].value>>
           = <<500, 500, 100>>

RECURSIVE SumCounts(_)
SumCounts(lines) ==
    IF lines = <<>> THEN 0 ELSE Head(lines).count + SumCounts(Tail(lines))

\* C9: the class summary printed after a table is the histogram of the first
\* min(10, n) rows of that table: one line per class among those rows, each
\* count the number of those rows of the class, lines in non-increasing
\* order of count, equal counts in order of first appearance in the ranking.
C9_SummaryIsHistogramOfTopRows ==
    (pc = "summarised" /\ table.limit = TableLimit) =>
        LET m == Min(10, Len(players))
            classAt(i) == players[table.rows[i].who].class_id
            lines == summary.lines
            first(c) == CHOOSE i \in 1..m :
                            classAt(i) = c /\ \A j \in 1..(i - 1) : classAt(j) # c
        IN  /\ Len(table.rows) >= m
            /\ {lines[a].class_id : a \in 1..Len(lines)} = {classAt(i) : i \in 1..m}
            /\ Len(lines) = Cardinality({classAt(i) : i \in 1..m})
            /\ \A a \in 1..Len(lines) :
                   /\ lines[a].count
                          = Cardinality({i \in 1..m : classAt(i) = lines[a].class_id})
                   /\ lines[a].name = CLASS_NAMES(lines[a].class_id)
                   /\ lines[a].icon = CLASS_ICONS(lines[a].class_id)
            /\ SumCounts(lines) = m
            /\ \A a, b \in 1..Len(lines) :
                   a < b =>
                       /\ lines[a].count >= lines[b].count
                       /\ lines[a].count = lines[b].count
                              => first(lines[a].class_id) < first(lines[b].class_id)

\* a list of more than ten players has been tabled and summarised, and two
\* classes of the summary have the same count
C9_Witness ==
    /\ pc = "summarised" /\ table.limit = TableLimit
    /\ Len(players) > 10
    /\ \E a, b \in 1..Len(summary.lines) :
           a # b /\ summary.lines[a].count = summary.lines[b].count

-----------------------------------------------------------------------------
(* main and find_all_players.  The directory tree is met as the traversal   *)
(* goes: iterdir and glob yield the next entry, whatever it is.             *)

\* what can be at a candidate path: nothing, a directory, or something that
\* exists but cannot be iterated (a regular file, a directory without read
\* permission)
PathKinds == {"missing", "dir", "file"}

\* Path.exists()
Exists(kind) == kind # "missing"

\* the working-directory candidate tried first
PickRootCwdFirst(script, cwd) == IF Exists(cwd) THEN "cwd" ELSE "script"

\* plrfiles_dir after the first `if not plrfiles_dir.exists()`
PickRoot(script, cwd) == IF Exists(script) THEN "script" ELSE "cwd"

RootKind == IF root = "script" THEN scriptDir ELSE cwdDir

Event(ev, key, n, body) == [ev |-> ev, key |-> key, n |-> n, body |-> body]

\* the key of the n-th report of main
ReportKeyGoldFirst(n) == IF n = 1 THEN "gold" ELSE "xp"

ReportKey(n) == IF n = 1 THEN "xp" ELSE "gold"

TextNamed == <<LnName, LnLevl, LnExp>>
TextMalformed == <<LnJunk, LnName, LnLevlBad, LnGold>>
TextNameless == <<LnClas, LnLevl, LnGold>>

\* the entries a subdirectory can hold: by name (.plr or not), by kind, with
\* the text of a file and the .plr files one level further down
Entry(plr, kind, text, inner) ==
    [plr |-> plr, kind |-> kind, text |-> text, inner |-> inner]

Entries ==
    {Entry(TRUE, "file", TextNamed, 0), Entry(TRUE, "file", TextMalformed, 0),
     Entry(TRUE, "file", TextNameless, 0), Entry(TRUE, "unreadable", <<>>, 0),
     Entry(TRUE, "dir", <<>>, 0), Entry(FALSE, "file", TextNamed, 0),
     Entry(FALSE, "dir", <<>>, 1)}

\* every entry yielded, whatever its name
GlobbedAny(e) == TRUE

\* subdir.glob("*.plr") yields the entries whose name ends in .plr
Globbed(e) == e.plr

\* parse_player_file on an entry: read_text succeeds on a readable file only
ParseEntry(e) == ParsePlayerFile(e.kind = "file", e.text)

\* what the traversal met, by what the entry is: a name that is not *.plr
\* (a file of another extension, a directory with .plr files further down),
\* a *.plr that cannot be read (no permission, or a directory of that name),
\* a readable *.plr without a name, a readable *.plr with a name
Note(s, e) ==
    IF ~e.plr THEN [s EXCEPT !.other = @ + 1]
    ELSE IF e.kind # "file" THEN [s EXCEPT !.unreadable = @ + 1]
    ELSE IF NameValueIn(e.text) = <<>> THEN [s EXCEPT !.nameless = @ + 1]
    ELSE [s EXCEPT !.named = Append(@, e.text)]

Init ==
    /\ pc = "start"
    /\ scriptDir \in PathKinds /\ cwdDir \in PathKinds
    /\ root = "none" /\ out = <<>> /\ status = -1 /\ calls = 0
    /\ seen = NoSeen /\ collected = <<>>
    /\ players = <<>>
    /\ IdleParse /\ IdleReport

collectorVars == <<seen, collected>>

\* how much of the tree the traversal has met
ChildrenMet == seen.nondir + seen.subdir
EntriesMet == seen.other + seen.unreadable + seen.nameless + Len(seen.named)

\* plrfiles_dir = script_dir / "lib" / "plrfiles", or Path("lib/plrfiles")
\* when that does not exist
Resolve ==
    /\ pc = "start"
    /\ root' = PickRoot(scriptDir, cwdDir)
    /\ pc' = "check"
    /\ UNCHANGED <<scriptDir, cwdDir, out, status, calls, players>>
    /\ UNCHANGED collectorVars /\ UNCHANGED parseVars /\ UNCHANGED reportVars

\* if not plrfiles_dir.exists(): print the error and the path, return 1
RootMissing ==
    /\ pc = "check"
    /\ ~Exists(RootKind)
    /\ out' = out \o <<Event("error", "none", 0, <<>>),
                       Event("looked_in", root, 0, <<>>)>>
    /\ status' = 1
    /\ pc' = "done"
    /\ UNCHANGED <<scriptDir, cwdDir, root, calls, players>>
    /\ UNCHANGED collectorVars /\ UNCHANGED parseVars /\ UNCHANGED reportVars

\* print(f"Reading player files from: ...")
PrintReading ==
    /\ pc = "check"
    /\ Exists(RootKind)
    /\ out' = Append(out, Event("reading", root, 0, <<>>))
    /\ pc' = "collect"
    /\ UNCHANGED <<scriptDir, cwdDir, root, status, calls, players>>
    /\ UNCHANGED collectorVars /\ UNCHANGED parseVars /\ UNCHANGED reportVars

\* find_all_players is entered: players = [], then plrfiles_dir.iterdir(),
\* which raises on what is not a readable directory; nothing catches it, the
\* interpreter prints the traceback and exits with status 1
EnterCollector ==
    /\ pc = "collect"
    /\ calls' = calls + 1
    /\ players' = <<>>
    /\ IF RootKind = "dir"
       THEN pc' = "iterdir" /\ UNCHANGED <<out, status>>
       ELSE /\ pc' = "done"
            /\ out' = Append(out, Event("traceback", root, 0, <<>>))
            /\ status' = 1
    /\ UNCHANGED <<scriptDir, cwdDir, root>>
    /\ UNCHANGED collectorVars /\ UNCHANGED parseVars /\ UNCHANGED reportVars

\* for subdir in plrfiles_dir.iterdir(): a child that is not a directory is
\* skipped, a directory is globbed
IterChild ==
    /\ pc = "iterdir"
    /\ ChildrenMet < MaxChildren
    /\ \E isDir \in BOOLEAN :
           IF isDir
           THEN pc' = "glob" /\ seen' = [seen EXCEPT !.subdir = @ + 1]
           ELSE pc' = pc /\ seen' = [seen EXCEPT !.nondir = @ + 1]
    /\ UNCHANGED <<scriptDir, cwdDir, root, out, status, calls, players, collected>>
    /\ UNCHANGED parseVars /\ UNCHANGED reportVars

\* for plr_file in subdir.glob("*.plr"): parse it and keep the player
GlobEntry ==
    /\ pc = "glob"
    /\ EntriesMet < MaxEntries
    /\ \E e \in Entries :
           /\ seen' = Note(seen, e)
           /\ players' = IF Globbed(e) /\ ParseEntry(e) # <<>>
                         THEN Append(players, ParseEntry(e)[1])
                         ELSE players
    /\ UNCHANGED <<pc, scriptDir, cwdDir, root, out, status, calls, collected>>
    /\ UNCHANGED parseVars /\ UNCHANGED reportVars

\* the subdirectory has no more entries
GlobDone ==
    /\ pc = "glob"
    /\ pc' = "iterdir"
    /\ UNCHANGED <<scriptDir, cwdDir, root, out, status, calls, players>>
    /\ UNCHANGED collectorVars /\ UNCHANGED parseVars /\ UNCHANGED reportVars

\* the root has no more children: return players
CollectorReturn ==
    /\ pc = "iterdir"
    /\ collected' = players
    /\ pc' = "found"
    /\ UNCHANGED <<scriptDir, cwdDir, root, out, status, calls, players, seen>>
    /\ UNCHANGED parseVars /\ UNCHANGED reportVars

\* print(f"Found {len(players)} players")
PrintFound ==
    /\ pc = "found"
    /\ out' = Append(out, Event("found", "none", Len(players), <<>>))
    /\ pc' = "table1"
    /\ UNCHANGED <<scriptDir, cwdDir, root, status, calls, players>>
    /\ UNCHANGED collectorVars /\ UNCHANGED parseVars /\ UNCHANGED reportVars

\* print_table(title, players, key) of the n-th report, limit left at 100
MainTable(n) ==
    /\ pc = IF n = 1 THEN "table1" ELSE "table2"
    /\ table' = [sort_key |-> ReportKey(n), limit |-> TableLimit,
                 rows |-> TableRows(players, ReportKey(n), TableLimit)]
    /\ out' = Append(out, Event("table", ReportKey(n), Len(table'.rows), table'.rows))
    /\ pc' = IF n = 1 THEN "summary1" ELSE "summary2"
    /\ UNCHANGED <<scriptDir, cwdDir, root, status, calls, players, summary>>
    /\ UNCHANGED collectorVars /\ UNCHANGED parseVars

\* print_class_summary(players, key) of the n-th report, limit left at 10
MainSummary(n) ==
    /\ pc = IF n = 1 THEN "summary1" ELSE "summary2"
    /\ summary' = [sort_key |-> ReportKey(n), limit |-> SummaryLimit,
                   lines |-> SummaryLines(players, ReportKey(n), SummaryLimit)]
    /\ out' = Append(out, Event("summary", ReportKey(n), Len(summary'.lines),
                                summary'.lines))
    /\ pc' = IF n = 1 THEN "table2" ELSE "return"
    /\ UNCHANGED <<scriptDir, cwdDir, root, status, calls, players, table>>
    /\ UNCHANGED collectorVars /\ UNCHANGED parseVars

MainTableXp == MainTable(1)
MainSummaryXp == MainSummary(1)
MainTableGold == MainTable(2)
MainSummaryGold == MainSummary(2)

\* return 0
ReturnSuccess ==
    /\ pc = "return"
    /\ status' = 0
    /\ pc' = "done"
    /\ UNCHANGED <<scriptDir, cwdDir, root, out, calls, players>>
    /\ UNCHANGED collectorVars /\ UNCHANGED parseVars /\ UNCHANGED reportVars

Next ==
    \/ Resolve \/ RootMissing \/ PrintReading
    \/ EnterCollector \/ IterChild \/ GlobEntry \/ GlobDone \/ CollectorReturn
    \/ PrintFound \/ MainTableXp \/ MainSummaryXp \/ MainTableGold
    \/ MainSummaryGold \/ ReturnSuccess

Spec == Init /\ [][Next]_vars

-----------------------------------------------------------------------------
(* Properties of main and find_all_players *)

EventKinds(events) == [i \in 1..Len(events) |-> <<events[i].ev, events[i].key>>]

\* the events of a run other than the "Reading player files from" line
Reported == SelectSeq(out, LAMBDA e : e.ev # "reading")

\* C4: the script-relative candidate is taken whenever it exists and the
\* working-directory one only when it does not; when neither exists main
\* prints the diagnostic naming the path it tried last and returns 1, the
\* collector never invoked and no report printed.
C4_RootResolution ==
    /\ root # "none" => (root = "script" <=> scriptDir # "missing")
    /\ (scriptDir = "missing" /\ cwdDir = "missing") =>
           /\ calls = 0
           /\ \A i \in 1..Len(out) : out[i].ev \in {"error", "looked_in"}
           /\ pc = "done" =>
                  /\ status = 1
                  /\ EventKinds(out) = <<<<"error", "none">>, <<"looked_in", "cwd">>>>

\* neither candidate exists and main has returned 1
C4_Witness ==
    /\ scriptDir = "missing" /\ cwdDir = "missing"
    /\ pc = "done" /\ status = 1 /\ Len(out) = 2

SuccessOrder ==
    <<<<"found", "none">>, <<"table", "xp">>, <<"summary", "xp">>,
      <<"table", "gold">>, <<"summary", "gold">>>>

\* C5: whenever a candidate root path exists the run ends with exit status 0
\* after both reports, whatever is at and under the root.
C5_ExistingRootExitsZero ==
    (pc = "done" /\ (scriptDir # "missing" \/ cwdDir # "missing")) =>
        /\ status = 0
        /\ EventKinds(Reported) = SuccessOrder

\* C6: find_all_players returns exactly one record per readable, named .plr
\* file lying directly in a subdirectory of the root, in traversal order;
\* non-directory children, other extensions, deeper levels, unreadable and
\* nameless files add nothing and raise nothing.
C6_OneRecordPerNamedPlrFile ==
    /\ (calls > 0 /\ RootKind = "dir") =>
           /\ status # 1
           /\ pc \in {"iterdir", "glob"} => Len(players) = Len(seen.named)
           /\ pc \notin {"iterdir", "glob"} => Len(collected) = Len(seen.named)
    /\ pc = "found" =>
           /\ collected = players
           /\ \A i \in 1..Len(collected) :
                  /\ collected[i].name = NameValueIn(seen.named[i])
                  /\ collected[i].name # <<>>
                  /\ collected[i] = ParseLines(DefaultData, seen.named[i])

\* one non-directory child, one subdirectory with two valid files and one
\* unreadable file: exactly 2 records
C6_Witness ==
    /\ pc = "found"
    /\ seen.nondir = 1 /\ seen.subdir = 1 /\ seen.unreadable = 1
    /\ seen.other = 0 /\ seen.nameless = 0
    /\ Len(seen.named) = 2
    /\ Len(collected) = 2

\* C8: in a successful run the collector runs once, then the count, the
\* experience table, its class summary, the currency table and its class
\* summary are printed in this order, then the run exits 0; both reports
\* are computed from the collected list, which no report step changes.
C8_ReportOrder ==
    /\ \A i \in 1..Len(Reported) :
           Reported[i].ev \in {"found", "table", "summary"} =>
               /\ i <= Len(SuccessOrder)
               /\ <<Reported[i].ev, Reported[i].key>> = SuccessOrder[i]
               /\ calls = 1
               /\ players = collected
               /\ pc \notin {"start", "check", "collect", "iterdir", "glob"}
    /\ status = 0 =>
           /\ pc = "done"
           /\ EventKinds(Reported) = SuccessOrder
           /\ Reported[1].n = Len(collected)
           /\ \A i \in {2, 4} :
                  /\ Reported[i].n = Min(TableLimit, Len(collected))
                  /\ \A r \in 1..Len(Reported[i].body) :
                         /\ Reported[i].body[r].name
                                = collected[Reported[i].body[r].who].name
                         /\ Reported[i].body[r].value
                                = collected[Reported[i].body[r].who][Reported[i].key]
                         /\ \A q \in 1..(r - 1) :
                                Reported[i].body[q].value >= Reported[i].body[r].value
           /\ \A i \in {3, 5} :
                  SumCounts(Reported[i].body) = Min(SummaryLimit, Len(collected))

\* a run over at least two records of different rank has exited 0
C8_Witness ==
    /\ status = 0 /\ pc = "done"
    /\ Len(collected) >= 2
    /\ Reported[2].body[1].who # Reported[4].body[1].who

====
